---- MODULE Spec2Model ----
(***************************************************************************)
(* BigQueryTableUsageExtractor (databuilder/extractor/                     *)
(* bigquery_usage_extractor.py): paginated retrieval of audit-log entries, *)
(* filtering and aggregation into table_usage_counts, and the pull-based   *)
(* extract() protocol.                                                     *)
(*                                                                         *)
(* Spec      : one whole run: init -> _count_usage driving                 *)
(*             _retrieve_records / _page_over_results -> extract calls.    *)
(* SpecEntry : the loop body of _count_usage applied to one entry drawn    *)
(*             from the full product of present/absent fields.             *)
(***************************************************************************)
EXTENDS Integers, Sequences, FiniteSets, TLC

\* ------------------------------------------------------------- bounds
MaxPages == 2
MaxPageLen == 2
MaxFails == 2
MaxRefs == 2
MaxExtraCalls == 2

\* ------------------------------------------------------------- values
\* An email and a pattern are sequences of characters; in a pattern "." is the
\* regular expression metacharacter "any character".
Emails == { <<"a">>, <<"a", "b">>, <<"b", "a">> }
Patterns == { <<>>, <<"a">>, <<"b">>, <<"a", "b">>, <<".", "a">>, <<"a", "b", "a">> }
RunPatterns == { <<>>, <<"a", "b">> }

T1 == [projectId |-> "proj", datasetId |-> "ds", tableId |-> "t1"]
T2 == [projectId |-> "proj", datasetId |-> "ds", tableId |-> "t2"]
RefTables == { T1, T2 }

RECURSIVE SeqsUpTo(_, _)
\* All sequences over S of length 0..n.
SeqsUpTo(S, n) ==
    IF n = 0 THEN { <<>> }
    ELSE LET shorter == SeqsUpTo(S, n - 1)
         IN  shorter \cup { Append(s, x) : s \in { t \in shorter : Len(t) = n - 1 }, x \in S }

\* A raw log entry, flattened: has* tells whether the nested field is there.
\*   hasJob                  entry['protoPayload']['serviceData']['jobCompletedEvent']['job']
\*   hasJobStatus, state, error     job['jobStatus'] with its 'state' and optional 'error'
\*   hasPrincipalEmail, principalEmail   entry['protoPayload']['authenticationInfo']['principalEmail']
\*   hasJobStatistics, hasReferencedTables, referencedTables, hasTotalTablesProcessed,
\*   totalTablesProcessed    job['jobStatistics'] and its two fields
\*   hasJobName              job['jobName']['jobId']
\* An absent field carries a fixed filler value.
AllEntries ==
    { e \in [ hasJob : BOOLEAN,
              hasJobStatus : BOOLEAN,
              state : {"DONE", "RUNNING"},
              error : {"absent", "empty", "nonempty"},
              hasPrincipalEmail : BOOLEAN,
              principalEmail : Emails,
              hasJobStatistics : BOOLEAN,
              hasReferencedTables : BOOLEAN,
              referencedTables : SeqsUpTo(RefTables, MaxRefs),
              hasTotalTablesProcessed : BOOLEAN,
              totalTablesProcessed : 0..MaxRefs,
              hasJobName : BOOLEAN ] :
        /\ (~e.hasJobStatus => e.state = "DONE" /\ e.error = "absent")
        /\ (~e.hasPrincipalEmail => e.principalEmail = <<"a">>)
        /\ (~e.hasJobStatistics => ~e.hasReferencedTables /\ ~e.hasTotalTablesProcessed)
        /\ (~e.hasReferencedTables => e.referencedTables = <<>>)
        /\ (~e.hasTotalTablesProcessed => e.totalTablesProcessed = 0) }

\* A completed, error-free query job with every field present.
JobEntry(email, refs, total) ==
    [ hasJob |-> TRUE, hasJobStatus |-> TRUE, state |-> "DONE", error |-> "absent",
      hasPrincipalEmail |-> TRUE, principalEmail |-> email,
      hasJobStatistics |-> TRUE, hasReferencedTables |-> TRUE, referencedTables |-> refs,
      hasTotalTablesProcessed |-> TRUE, totalTablesProcessed |-> total,
      hasJobName |-> TRUE ]

\* The entries the source log of a whole run is drawn from: two countable jobs
\* sharing a table, the second of which the pattern of RunPatterns rejects,
\* and a job without jobStatus.
RunEntries ==
    { JobEntry(<<"a", "b">>, <<T1>>, 1),
      JobEntry(<<"b", "a">>, <<T1, T2>>, 2),
      [ JobEntry(<<"a", "b">>, <<T2>>, 1) EXCEPT !.hasJobStatus = FALSE ] }

\* ------------------------------------------------------------- helpers
\* re.fullmatch in the place of re.match: the whole string must match.
re_fullmatch(pattern, string) ==
    /\ Len(pattern) = Len(string)
    /\ \A i \in 1..Len(pattern) : pattern[i] = "." \/ pattern[i] = string[i]

RECURSIVE re_match(_, _)
\* re.match(pattern, string): the pattern must match at the start of the
\* string; what follows the match is not looked at.
re_match(pattern, string) ==
    IF pattern = <<>> THEN TRUE
    ELSE /\ string # <<>>
         /\ (Head(pattern) = "." \/ Head(pattern) = Head(string))
         /\ re_match(Tail(pattern), Tail(string))

\* TableColumnUsageTuple(database='bigquery', cluster=..., column='*', email=email)
TableColumnUsageTuple(refTable, email) ==
    [ database |-> "bigquery", cluster |-> refTable.projectId, schema |-> refTable.datasetId,
      table |-> refTable.tableId, column |-> "*", email |-> email ]

\* counts[key] = 1 in the place of counts[key] = counts.get(key, 0) + 1
Overwrite(counts, key) ==
    [ k \in DOMAIN counts \cup {key} |-> IF k = key THEN 1 ELSE counts[k] ]

\* counts[key] = counts.get(key, 1) + 1: a new key starts at 2
IncrementFromOne(counts, key) ==
    [ k \in DOMAIN counts \cup {key} |->
        IF k = key THEN (IF key \in DOMAIN counts THEN counts[key] ELSE 1) + 1 ELSE counts[k] ]

\* counts[key] = counts.get(key, 0): the + 1 is lost
StoreUnchanged(counts, key) ==
    [ k \in DOMAIN counts \cup {key} |->
        IF k = key THEN (IF key \in DOMAIN counts THEN counts[key] ELSE 0) ELSE counts[k] ]

\* dict.get(key, 0)
Get(counts, key) == IF key \in DOMAIN counts THEN counts[key] ELSE 0

\* new_count = counts.get(key, 0) + 1 ; counts[key] = new_count
Increment(counts, key) ==
    [ k \in DOMAIN counts \cup {key} |-> IF k = key THEN Get(counts, key) + 1 ELSE counts[k] ]

EmptyCounts == [ k \in {} |-> 0 ]

\* the comparison of the state inverted
state_is_done(e) == e.state = "DONE"

\* the comparison of the number of errors inverted
has_no_errors(e) == e.error # "nonempty"

\* job['jobStatus']['state'] != 'DONE'
state_not_done(e) == e.state # "DONE"

\* len(job['jobStatus'].get('error', {})) > 0
has_errors(e) == e.error = "nonempty"

\* not refTables, with refTables = job['jobStatistics'].get('referencedTables', None)
no_ref_tables(e) == ~e.hasReferencedTables \/ e.referencedTables = <<>>

\* self.email_pattern and not re.match(self.email_pattern, email)
email_rejected(e, pattern) == pattern # <<>> /\ ~re_match(pattern, e.principalEmail)

\* len(refTables) > numTablesProcessed in the place of !=
tables_exceed(e) == Len(e.referencedTables) > e.totalTablesProcessed

\* len(refTables) != numTablesProcessed
tables_inconsistent(e) == Len(e.referencedTables) # e.totalTablesProcessed

\* What the loop body of _count_usage does with one entry, in the order of the
\* code's statements:
\*   "continue" : the entry is skipped,  "KeyError" : a subscript raises,
\*   "count"    : the for loop over refTables is entered;
\* at: the field at which this was decided; warn: LOGGER.warn was called.
filter_entry(e, pattern) ==
    IF ~e.hasJob THEN [ outcome |-> "continue", at |-> "job", warn |-> FALSE ]
    ELSE IF ~e.hasJobStatus THEN [ outcome |-> "KeyError", at |-> "jobStatus", warn |-> FALSE ]
    ELSE IF state_not_done(e) THEN [ outcome |-> "continue", at |-> "state", warn |-> FALSE ]
    ELSE IF has_errors(e) THEN [ outcome |-> "continue", at |-> "error", warn |-> FALSE ]
    ELSE IF ~e.hasPrincipalEmail
         THEN [ outcome |-> "KeyError", at |-> "principalEmail", warn |-> FALSE ]
    ELSE IF ~e.hasJobStatistics
         THEN [ outcome |-> "KeyError", at |-> "jobStatistics", warn |-> FALSE ]
    ELSE IF no_ref_tables(e)
         THEN [ outcome |-> "continue", at |-> "referencedTables", warn |-> FALSE ]
    ELSE IF email_rejected(e, pattern)
         THEN [ outcome |-> "continue", at |-> "email", warn |-> FALSE ]
    ELSE IF ~e.hasTotalTablesProcessed
         THEN [ outcome |-> "KeyError", at |-> "totalTablesProcessed", warn |-> FALSE ]
    ELSE IF tables_inconsistent(e)
         THEN IF ~e.hasJobName
              THEN [ outcome |-> "KeyError", at |-> "jobName", warn |-> FALSE ]
              ELSE [ outcome |-> "count", at |-> "refTables", warn |-> TRUE ]
    ELSE [ outcome |-> "count", at |-> "refTables", warn |-> FALSE ]

RECURSIVE CountRefs(_, _, _)
\* The whole for loop over refTables, from the i-th reference on.
CountRefs(counts, e, i) ==
    IF i > Len(e.referencedTables) THEN counts
    ELSE CountRefs(Increment(counts, TableColumnUsageTuple(e.referencedTables[i], e.principalEmail)),
                   e, i + 1)

RECURSIVE CountEntries(_, _, _)
\* The counts after every entry of a list that reaches the for loop is counted.
CountEntries(counts, entries, pattern) ==
    IF entries = <<>> THEN counts
    ELSE CountEntries(IF filter_entry(Head(entries), pattern).outcome = "count"
                      THEN CountRefs(counts, Head(entries), 1) ELSE counts,
                      Tail(entries), pattern)

\* A response of entries().list(): 'entries' may be missing; nextPageToken = 0
\* stands for a response without the field, n > 0 for the token of page n.
\* An empty response {} is falsy and ends the while loop at once; a response
\* with neither field goes the same way in two steps (no yield, response = None).
NoResponse == [ isNone |-> TRUE, hasEntries |-> FALSE, entries |-> <<>>, nextPageToken |-> 0 ]

Responses(pageNo) ==
    { r \in [ isNone : {FALSE}, hasEntries : BOOLEAN,
              entries : SeqsUpTo(RunEntries, MaxPageLen),
              nextPageToken : {0} \cup (IF pageNo < MaxPages THEN {pageNo + 1} ELSE {}) ] :
        ~r.hasEntries => r.entries = <<>> }

\* self.delay_time = conf.get_int(DELAY_TIME, 100): the default
delay_time == 100

\* One list(body=body).execute() call as it is logged.
\* next: the nextPageToken of its response, 0 when there is none.
Call(token, ok, hasEntries, next) ==
    [ pageToken |-> token, ok |-> ok, hasEntries |-> hasEntries, next |-> next ]

\* The loop variable of _count_usage before the first iteration.
NoEntry == JobEntry(<<"a">>, <<>>, 0)

NoReturn == [ kind |-> "nothing", key |-> TableColumnUsageTuple(T1, <<"a">>), count |-> 0 ]

\* ------------------------------------------------------------- state
VARIABLES
    pc,                  \* where the run is: "init", "while", "page", "refs", "try", "sleep",
                         \* "ready" (init has returned), "raised" (init has raised)
    err,                 \* the exception init raised: "none", "transport", "KeyError"
    email_pattern,       \* self.email_pattern; <<>> is None or '' (both falsy)
    table_usage_counts,  \* self.table_usage_counts
    count,               \* _count_usage's count of entries taken
    entry,               \* _count_usage's loop variable
    response,            \* _page_over_results' response
    pageToken,           \* body['pageToken'], 0 while the key is not set
    idx,                 \* _retrieve_records: index of the next entry of the page
    ridx,                \* _count_usage: index of the next refTable, 0 outside the loop
    nCalls,              \* list(...).execute() calls issued so far
    fails,               \* how many of the calls for a next page raised
    iter,                \* self.iter: the keys it has still to produce
    ret,                 \* what the last extract() returned
    pending,             \* entries the log has served and the aggregator has not yet been handed
    faithful,            \* every entry handed to the aggregator was the oldest pending one
    expected,            \* the counts of the references of the served entries that are counted
    before,              \* table_usage_counts when the current entry was taken
    returned,            \* how often extract() has returned each key
    nNone,               \* how often extract() has returned None
    handed,              \* how often each entry has been handed to the aggregator
    warned,              \* LOGGER.warn was called for the current entry
    calls,               \* the list calls issued: the pageToken of the body (0: none), whether
                         \* the call returned, whether its response had 'entries', and the
                         \* nextPageToken of its response
    slept                \* the time spent in sleep()

vars == << pc, err, email_pattern, table_usage_counts, count, entry, response, pageToken, idx,
           ridx, nCalls, fails, iter, ret, pending, faithful, expected, before, returned, nNone,
           handed, warned, calls, slept >>

paging == << response, pageToken, nCalls, fails, calls >>
aggregation == << table_usage_counts, count, entry, ridx, before, handed, warned >>
extraction == << iter, ret, returned, nNone >>
served == << pending, expected >>

\* init up to the call of _count_usage: the map is created empty.
Init ==
    /\ pc = "init"
    /\ err = "none"
    /\ email_pattern \in RunPatterns
    /\ table_usage_counts = EmptyCounts
    /\ count = 0
    /\ entry = NoEntry
    /\ response = NoResponse
    /\ pageToken = 0
    /\ idx = 0
    /\ ridx = 0
    /\ nCalls = 0
    /\ fails = 0
    /\ iter = {}
    /\ ret = NoReturn
    /\ pending = <<>>
    /\ faithful = TRUE
    /\ expected = EmptyCounts
    /\ before = EmptyCounts
    /\ returned = EmptyCounts
    /\ nNone = 0
    /\ handed = EmptyCounts
    /\ warned = FALSE
    /\ calls = <<>>
    /\ slept = 0

\* ------------------------------------------------------------- _page_over_results
\* The first list call returns a response.
first_fetch_ok ==
    /\ pc = "init"
    /\ \E r \in Responses(1) :
          /\ response' = r
          /\ calls' = Append(calls, Call(pageToken, TRUE, r.hasEntries, r.nextPageToken))
          /\ pending' = pending \o r.entries
          /\ expected' = CountEntries(expected, r.entries, email_pattern)
    /\ nCalls' = nCalls + 1
    /\ pc' = "while"
    /\ UNCHANGED << err, email_pattern, slept, pageToken, fails, idx, faithful, aggregation, extraction >>

\* The first list call raises: it is outside the try block, init raises.
first_fetch_raises ==
    /\ pc = "init"
    /\ nCalls' = nCalls + 1
    /\ calls' = Append(calls, Call(pageToken, FALSE, FALSE, 0))
    /\ pc' = "raised"
    /\ err' = "transport"
    /\ UNCHANGED << email_pattern, slept, response, pageToken, fails, idx, faithful, served,
                    aggregation, extraction >>

\* while response: ... if 'entries' in response: yield response
yield_page ==
    /\ pc = "while"
    /\ ~response.isNone
    /\ response.hasEntries
    /\ idx' = 1
    /\ pc' = "page"
    /\ UNCHANGED << err, email_pattern, slept, paging, faithful, served, aggregation, extraction >>

\* the response is yielded without the test for 'entries': page['entries'] in
\* _retrieve_records raises KeyError
skip_page_raises ==
    /\ pc = "while"
    /\ ~response.isNone
    /\ ~response.hasEntries
    /\ pc' = "raised"
    /\ err' = "KeyError"
    /\ UNCHANGED << email_pattern, slept, paging, idx, faithful, served, aggregation, extraction >>

\* while response: ... 'entries' is not in response, nothing is yielded
skip_page ==
    /\ pc = "while"
    /\ ~response.isNone
    /\ ~response.hasEntries
    /\ pc' = "try"
    /\ UNCHANGED << err, email_pattern, slept, paging, idx, faithful, served, aggregation, extraction >>

\* while response: response is None, the generators end, _count_usage returns
\* and init sets self.iter = iter(self.table_usage_counts)
while_exit ==
    /\ pc = "while"
    /\ response.isNone
    /\ iter' = DOMAIN table_usage_counts
    /\ pc' = "ready"
    /\ UNCHANGED << err, email_pattern, slept, paging, idx, faithful, served, aggregation,
                    ret, returned, nNone >>

\* the token is not put into the body: the call carries the body as it was
next_fetch_stale_token ==
    /\ pc = "try"
    /\ response.nextPageToken # 0
    /\ \E r \in Responses(response.nextPageToken) :
          /\ response' = r
          /\ calls' = Append(calls, Call(pageToken, TRUE, r.hasEntries, r.nextPageToken))
          /\ pending' = pending \o r.entries
          /\ expected' = CountEntries(expected, r.entries, email_pattern)
    /\ nCalls' = nCalls + 1
    /\ pc' = "while"
    /\ UNCHANGED << err, email_pattern, slept, pageToken, fails, idx, faithful, aggregation,
                    extraction >>

\* 'nextPageToken' in response: the token goes into the body and list returns
next_fetch_ok ==
    /\ pc = "try"
    /\ response.nextPageToken # 0
    /\ pageToken' = response.nextPageToken
    /\ \E r \in Responses(response.nextPageToken) :
          /\ response' = r
          /\ calls' = Append(calls, Call(response.nextPageToken, TRUE, r.hasEntries,
                                         r.nextPageToken))
          /\ pending' = pending \o r.entries
          /\ expected' = CountEntries(expected, r.entries, email_pattern)
    /\ nCalls' = nCalls + 1
    /\ pc' = "while"
    /\ UNCHANGED << err, email_pattern, slept, fails, idx, faithful, aggregation, extraction >>

\* the list call for a next page outside the try block: its exception leaves init
next_fetch_surfaces ==
    /\ pc = "try"
    /\ response.nextPageToken # 0
    /\ fails < MaxFails
    /\ pageToken' = response.nextPageToken
    /\ nCalls' = nCalls + 1
    /\ calls' = Append(calls, Call(response.nextPageToken, FALSE, FALSE, 0))
    /\ fails' = fails + 1
    /\ pc' = "raised"
    /\ err' = "transport"
    /\ UNCHANGED << email_pattern, slept, response, idx, faithful, served, aggregation, extraction >>

\* 'nextPageToken' in response: the token goes into the body and list raises;
\* the except clause is entered and response keeps its value
next_fetch_raises ==
    /\ pc = "try"
    /\ response.nextPageToken # 0
    /\ fails < MaxFails
    /\ pageToken' = response.nextPageToken
    /\ nCalls' = nCalls + 1
    /\ calls' = Append(calls, Call(response.nextPageToken, FALSE, FALSE, 0))
    /\ fails' = fails + 1
    /\ pc' = "sleep"
    /\ UNCHANGED << err, email_pattern, slept, response, idx, faithful, served, aggregation, extraction >>

\* else: response = None
no_next_page ==
    /\ pc = "try"
    /\ response.nextPageToken = 0
    /\ response' = NoResponse
    /\ pc' = "while"
    /\ UNCHANGED << err, email_pattern, slept, pageToken, nCalls, fails, calls, idx, faithful, served,
                    aggregation, extraction >>

\* the except clause without the sleep
sleep_skipped ==
    /\ pc = "sleep"
    /\ pc' = "while"
    /\ UNCHANGED << err, email_pattern, slept, paging, idx, faithful, served, aggregation,
                    extraction >>

\* sleep(self.delay_time) returns: back to the loop test
sleep_returns ==
    /\ pc = "sleep"
    /\ slept' = slept + delay_time
    /\ pc' = "while"
    /\ UNCHANGED << err, email_pattern, paging, idx, faithful, served, aggregation, extraction >>

\* ------------------------------------------------------------- _retrieve_records, _count_usage
\* for entry in page['entries']: yield(entry), and the loop body of
\* _count_usage up to the for loop over refTables
next_record ==
    /\ pc = "page"
    /\ idx <= Len(response.entries)
    /\ LET e == response.entries[idx]
           f == filter_entry(e, email_pattern)
       IN  /\ entry' = e
           /\ count' = count + 1
           /\ before' = table_usage_counts
           /\ handed' = Increment(handed, e)
           /\ warned' = f.warn
           /\ faithful' = (faithful /\ pending # <<>> /\ Head(pending) = e)
           /\ pending' = IF pending # <<>> THEN Tail(pending) ELSE pending
           /\ \/ /\ f.outcome = "continue"
                 /\ idx' = idx + 1
                 /\ UNCHANGED << pc, err, ridx >>
              \/ /\ f.outcome = "KeyError"
                 /\ pc' = "raised"
                 /\ err' = "KeyError"
                 /\ UNCHANGED << idx, ridx >>
              \/ /\ f.outcome = "count"
                 /\ pc' = "refs"
                 /\ ridx' = 1
                 /\ UNCHANGED << idx, err >>
    /\ UNCHANGED << email_pattern, slept, table_usage_counts, paging, expected, extraction >>

\* for entry in page['entries'] is over: _page_over_results resumes after its yield
page_done ==
    /\ pc = "page"
    /\ idx > Len(response.entries)
    /\ pc' = "try"
    /\ UNCHANGED << err, email_pattern, slept, paging, idx, faithful, served, aggregation, extraction >>

\* counts[key] = count in the place of counts[key] = new_count: the number of
\* the entry is stored, which depends on the order of the entries
count_ref_stores_count ==
    /\ pc = "refs"
    /\ LET key == TableColumnUsageTuple(entry.referencedTables[ridx], entry.principalEmail)
       IN  table_usage_counts' =
             [ k \in DOMAIN table_usage_counts \cup {key} |->
                 IF k = key THEN count ELSE table_usage_counts[k] ]
    /\ IF ridx < Len(entry.referencedTables)
       THEN /\ ridx' = ridx + 1
            /\ UNCHANGED << pc, idx >>
       ELSE /\ ridx' = 0
            /\ idx' = idx + 1
            /\ pc' = "page"
    /\ UNCHANGED << err, email_pattern, slept, count, entry, before, handed, warned, paging,
                    faithful, served, extraction >>

\* one iteration of for refTable in refTables
count_ref ==
    /\ pc = "refs"
    /\ table_usage_counts' =
          Increment(table_usage_counts,
                    TableColumnUsageTuple(entry.referencedTables[ridx], entry.principalEmail))
    /\ IF ridx < Len(entry.referencedTables)
       THEN /\ ridx' = ridx + 1
            /\ UNCHANGED << pc, idx >>
       ELSE /\ ridx' = 0
            /\ idx' = idx + 1
            /\ pc' = "page"
    /\ UNCHANGED << err, email_pattern, slept, count, entry, before, handed, warned, paging,
                    faithful, served, extraction >>

\* ------------------------------------------------------------- extract
\* next(iter(self.table_usage_counts)) in the place of next(self.iter): the
\* iterator is made anew by every call and never advances
extract_restarts ==
    /\ pc = "ready"
    /\ IF iter # {}
       THEN \E key \in iter :
              /\ ret' = [ kind |-> "pair", key |-> key, count |-> table_usage_counts[key] ]
              /\ returned' = Increment(returned, key)
              /\ UNCHANGED << iter, nNone >>
       ELSE /\ nNone < MaxExtraCalls
            /\ ret' = [ NoReturn EXCEPT !.kind = "None" ]
            /\ nNone' = nNone + 1
            /\ UNCHANGED << iter, returned >>
    /\ UNCHANGED << pc, err, email_pattern, slept, paging, idx, faithful, served, aggregation >>

\* return key, self.table_usage_counts.pop(key): extraction empties the map
extract_pops ==
    /\ pc = "ready"
    /\ IF iter # {}
       THEN \E key \in iter :
              /\ iter' = iter \ {key}
              /\ ret' = [ kind |-> "pair", key |-> key, count |-> table_usage_counts[key] ]
              /\ returned' = Increment(returned, key)
              /\ table_usage_counts' =
                   [ k \in DOMAIN table_usage_counts \ {key} |-> table_usage_counts[k] ]
              /\ UNCHANGED nNone
       ELSE /\ nNone < MaxExtraCalls
            /\ ret' = [ NoReturn EXCEPT !.kind = "None" ]
            /\ nNone' = nNone + 1
            /\ UNCHANGED << iter, returned, table_usage_counts >>
    /\ UNCHANGED << pc, err, email_pattern, slept, paging, idx, faithful, served, count, entry,
                    ridx, before, handed, warned >>

\* extraction served from the map while _count_usage is still between entries
extract_during_build ==
    /\ pc \in {"ready", "page"}
    /\ IF pc = "page"
       THEN \E key \in DOMAIN table_usage_counts \ DOMAIN returned :
              /\ ret' = [ kind |-> "pair", key |-> key, count |-> table_usage_counts[key] ]
              /\ returned' = Increment(returned, key)
              /\ UNCHANGED << iter, nNone >>
       ELSE IF iter # {}
       THEN \E key \in iter :
              /\ iter' = iter \ {key}
              /\ ret' = [ kind |-> "pair", key |-> key, count |-> table_usage_counts[key] ]
              /\ returned' = Increment(returned, key)
              /\ UNCHANGED nNone
       ELSE /\ nNone < MaxExtraCalls
            /\ ret' = [ NoReturn EXCEPT !.kind = "None" ]
            /\ nNone' = nNone + 1
            /\ UNCHANGED << iter, returned >>
    /\ UNCHANGED << pc, err, email_pattern, slept, paging, idx, faithful, served, aggregation >>

\* key = next(self.iter); return key, self.table_usage_counts[key]
\* except StopIteration: return None
\* The order in which a dict iterator produces the keys is not fixed here:
\* any key it has still to produce may be the next one.
extract ==
    /\ pc = "ready"
    /\ IF iter # {}
       THEN \E key \in iter :
              /\ iter' = iter \ {key}
              /\ ret' = [ kind |-> "pair", key |-> key, count |-> table_usage_counts[key] ]
              /\ returned' = Increment(returned, key)
              /\ UNCHANGED nNone
       ELSE /\ nNone < MaxExtraCalls
            /\ ret' = [ NoReturn EXCEPT !.kind = "None" ]
            /\ nNone' = nNone + 1
            /\ UNCHANGED << iter, returned >>
    /\ UNCHANGED << pc, err, email_pattern, slept, paging, idx, faithful, served, aggregation >>

Next ==
    \/ first_fetch_ok
    \/ first_fetch_raises
    \/ yield_page
    \/ skip_page
    \/ while_exit
    \/ next_fetch_ok
    \/ next_fetch_raises
    \/ no_next_page
    \/ sleep_returns
    \/ next_record
    \/ page_done
    \/ count_ref
    \/ extract

Spec == Init /\ [][Next]_vars

\* The steps of init: the interpreter runs them one after the other without
\* a pause of its own, while the caller is free never to call extract().
Build ==
    \/ first_fetch_ok
    \/ first_fetch_raises
    \/ yield_page
    \/ skip_page
    \/ while_exit
    \/ next_fetch_ok
    \/ next_fetch_raises
    \/ no_next_page
    \/ sleep_returns
    \/ next_record
    \/ page_done
    \/ count_ref

\* A run whose log has at most MaxPages pages and whose next-page fetches
\* raise at most MaxFails times.
SpecLive == Init /\ [][Next]_vars /\ WF_vars(Build)

\* ------------------------------------------------------------- one entry
\* The entries already taken from the page when the entry under study is next.
Prefixes ==
    { <<>>,
      << JobEntry(<<"a", "b">>, <<T1>>, 1) >>,
      << JobEntry(<<"a", "b">>, <<T1>>, 1), JobEntry(<<"b", "a">>, <<T1, T2>>, 2) >> }

\* A run whose first response is one page without nextPageToken, at the point
\* where the entries of a prefix have been taken and any entry at all is next.
InitEntry ==
    \E prefix \in Prefixes, e \in AllEntries :
        /\ pc = "page"
        /\ err = "none"
        /\ email_pattern \in Patterns
        /\ table_usage_counts = CountEntries(EmptyCounts, prefix, email_pattern)
        /\ count = Len(prefix)
        /\ entry = IF prefix = <<>> THEN NoEntry ELSE prefix[Len(prefix)]
        /\ response = [ isNone |-> FALSE, hasEntries |-> TRUE, entries |-> Append(prefix, e),
                        nextPageToken |-> 0 ]
        /\ pageToken = 0
        /\ idx = Len(prefix) + 1
        /\ ridx = 0
        /\ nCalls = 1
        /\ fails = 0
        /\ iter = {}
        /\ ret = NoReturn
        /\ pending = << e >>
        /\ faithful = TRUE
        /\ expected = CountEntries(EmptyCounts, Append(prefix, e), email_pattern)
        /\ before = IF prefix = <<>> THEN EmptyCounts
                    ELSE CountEntries(EmptyCounts, SubSeq(prefix, 1, Len(prefix) - 1), email_pattern)
        /\ returned = EmptyCounts
        /\ nNone = 0
        /\ handed = [ x \in { prefix[i] : i \in 1..Len(prefix) } |-> 1 ]
        /\ warned = (prefix # <<>> /\ filter_entry(prefix[Len(prefix)], email_pattern).warn)
        /\ calls = << Call(0, TRUE, TRUE, 0) >>
        /\ slept = 0

NextEntry ==
    \/ next_record
    \/ count_ref
    \/ page_done

SpecEntry == InitEntry /\ [][NextEntry]_vars

\* ------------------------------------------------------------- properties
\* The usage key of a reference made by a principal.
KeyOf(refTable, email) ==
    [ database |-> "bigquery", cluster |-> refTable.projectId, schema |-> refTable.datasetId,
      table |-> refTable.tableId, column |-> "*", email |-> email ]

\* How many of the first n references of an entry are references to the key.
RefsTo(e, n, key) ==
    Cardinality({ i \in 1..n : KeyOf(e.referencedTables[i], e.principalEmail) = key })

\* The pattern matches a leading substring of the email.
MatchesPrefix(pattern, email) ==
    \E n \in 0..Len(email) :
        /\ n = Len(pattern)
        /\ \A i \in 1..n : pattern[i] = "." \/ pattern[i] = email[i]

\* The entry held by the loop variable has been taken from the page.
Taken == count > 0

\* The entry held by the loop variable was skipped: nothing was raised, no
\* count was changed, and the loop went on to the next entry of the page.
Dropped ==
    /\ pc \in {"page", "try"}
    /\ err = "none"
    /\ idx > 1
    /\ response.entries[idx - 1] = entry
    /\ table_usage_counts = before

\* The fields of a job-completion entry that the state, error and
\* referenced-tables checks read are there and pass the checks.
PassesChecks(e) ==
    /\ e.hasJob /\ e.hasJobStatus /\ e.state = "DONE" /\ e.error # "nonempty"
    /\ e.hasPrincipalEmail /\ e.hasJobStatistics
    /\ e.hasReferencedTables /\ e.referencedTables # <<>>

\* No expected field of the entry is absent.
Complete(e) ==
    /\ e.hasJob /\ e.hasJobStatus /\ e.hasPrincipalEmail /\ e.hasJobStatistics
    /\ e.hasReferencedTables /\ e.hasTotalTablesProcessed /\ e.hasJobName

\* C1 (as claimed): the entries handed to the aggregator are the entries of the
\* served pages in page order, each exactly once, also when a fetch of a next
\* page fails before it succeeds.
C1_EachEntryOnce ==
    /\ faithful
    /\ (pc = "ready" => pending = <<>>)

\* C2: once init has built the map, extract() returns each (key, count) pair
\* of the map exactly once, and None only after all of them and from then on.
C2_ExtractOnceThenNone ==
    pc = "ready" =>
        /\ \A key \in DOMAIN returned :
              key \in DOMAIN table_usage_counts /\ returned[key] = 1
        /\ (nNone > 0 => DOMAIN returned = DOMAIN table_usage_counts)
        /\ (ret.kind = "pair" =>
              /\ nNone = 0
              /\ ret.key \in DOMAIN returned
              /\ ret.count = table_usage_counts[ret.key])
        /\ (ret.kind = "None" <=> nNone > 0)
        /\ (ret.kind = "nothing" <=> DOMAIN returned = {} /\ nNone = 0)

C2_Witness ==
    /\ pc = "ready"
    /\ Cardinality(DOMAIN table_usage_counts) >= 3
    /\ DOMAIN returned = DOMAIN table_usage_counts
    /\ nNone >= 2

\* C3 (as claimed): when the build phase ends, the count of every key is the
\* number of counted references to it in the entries of the served pages, and
\* a key without such a reference is not in the map.
C3_CountsAreReferences ==
    pc = "ready" => table_usage_counts = expected

\* C4: an entry that passes all filters raises the count of the key of each
\* of its K listed references by one per listing, K increments in all, and
\* changes no other key.
C4_OneIncrementPerReference ==
    (Taken /\ pc \in {"refs", "page", "try"} /\ Complete(entry) /\ PassesChecks(entry)
       /\ (email_pattern = <<>> \/ MatchesPrefix(email_pattern, entry.principalEmail))) =>
        LET n == IF pc = "refs" THEN ridx - 1 ELSE Len(entry.referencedTables)
        IN  /\ err = "none"
            /\ DOMAIN table_usage_counts =
                 DOMAIN before \cup
                   { KeyOf(entry.referencedTables[i], entry.principalEmail) : i \in 1..n }
            /\ \A key \in DOMAIN table_usage_counts :
                 table_usage_counts[key] = Get(before, key) + RefsTo(entry, n, key)

C4_Witness ==
    /\ pc = "page"
    /\ count = 3
    /\ idx = 4
    /\ Complete(entry) /\ PassesChecks(entry)
    /\ entry.referencedTables = << T1, T1 >>
    /\ entry.totalTablesProcessed = 1
    /\ email_pattern = <<>>
    /\ table_usage_counts[KeyOf(T1, entry.principalEmail)] = Get(before, KeyOf(T1, entry.principalEmail)) + 2
    /\ Get(before, KeyOf(T1, entry.principalEmail)) = 1

\* C5 (as claimed): an entry from which an expected field is absent is
\* dropped: no error is raised, no count changes, the next entry is taken.
C5_IncompleteEntryDropped ==
    (Taken /\ ~Complete(entry)) => (pc # "raised" /\ pc # "refs" /\ table_usage_counts = before)

\* C6 (as claimed): no failure of a list call of _page_over_results reaches
\* the caller of init.
C6_NoTransportErrorSurfaces ==
    ~(pc = "raised" /\ err = "transport")

\* C6 (amended): a failure of a list call for a next page never reaches the
\* caller of init, however often it fails: only the first list call of the
\* run, before any response, can raise out of init.
C6_NextPageFailureRecovered ==
    /\ (err = "transport" => nCalls = 1 /\ fails = 0 /\ response = NoResponse)
    /\ (fails > 0 => err # "transport")
    /\ (pc = "sleep" => fails > 0 /\ response.nextPageToken = pageToken)

C6_Witness ==
    /\ pc = "ready"
    /\ fails = 2
    /\ nCalls = 4

\* C7: an entry that passes the state, error and referenced-tables checks is
\* dropped when a pattern is configured and matches no leading substring of
\* its principalEmail, and is counted when no pattern is configured or the
\* pattern matches a leading substring.
C7_EmailFilter ==
    (Taken /\ PassesChecks(entry)) =>
        IF email_pattern # <<>> /\ ~MatchesPrefix(email_pattern, entry.principalEmail)
        THEN Dropped
        ELSE Complete(entry) =>
               /\ pc \in {"refs", "page", "try"}
               /\ pc = "refs" \/
                    \A i \in 1..Len(entry.referencedTables) :
                       LET key == KeyOf(entry.referencedTables[i], entry.principalEmail)
                       IN  Get(table_usage_counts, key) > Get(before, key)

C7_Witness ==
    /\ pc = "page"
    /\ count = Len(response.entries)
    /\ idx = count + 1
    /\ PassesChecks(entry) /\ Complete(entry)
    /\ email_pattern = <<"a">>
    /\ entry.principalEmail = <<"a", "b">>
    /\ table_usage_counts # before

C7_WitnessRejected ==
    /\ Dropped
    /\ count = Len(response.entries)
    /\ PassesChecks(entry) /\ Complete(entry)
    /\ email_pattern = <<"b">>
    /\ entry.principalEmail = <<"a", "b">>

\* C8: an entry whose job state is not 'DONE' is dropped, whatever its other
\* fields hold: no count changes and the next entry is taken.
C8_NotDoneDropped ==
    (Taken /\ entry.hasJobStatus /\ entry.state # "DONE") => Dropped

C8_Witness ==
    /\ Taken
    /\ entry.hasJob /\ entry.hasJobStatus /\ entry.state = "RUNNING"
    /\ entry.error = "absent"
    /\ entry.referencedTables = << T1, T2 >>
    /\ ~entry.hasPrincipalEmail
    /\ Dropped
    /\ count = 2

\* C9: an entry whose job status carries a non-empty error set is dropped,
\* whatever its referenced tables and principal are.
C9_ErrorsDropped ==
    (Taken /\ entry.hasJobStatus /\ entry.error = "nonempty") => Dropped

C9_Witness ==
    /\ Taken
    /\ entry.hasJob /\ entry.hasJobStatus /\ entry.state = "DONE" /\ entry.error = "nonempty"
    /\ entry.referencedTables = << T2 >>
    /\ entry.hasPrincipalEmail
    /\ Dropped
    /\ count = 3

\* C10 (as claimed): a DONE, error-free entry whose referencedTables list is
\* absent or empty is dropped at that check, whatever its other fields hold.
C10_NoReferencedTablesDropped ==
    (Taken /\ entry.hasJob /\ entry.hasJobStatus /\ entry.state = "DONE"
       /\ entry.error # "nonempty"
       /\ (~entry.hasReferencedTables \/ entry.referencedTables = <<>>)) => Dropped

\* Every usage key an entry of the model can refer to.
Keys == { KeyOf(t, m) : t \in RefTables, m \in Emails }

\* The entry passes every check of the pipeline under the configured pattern.
Counted(e) ==
    /\ PassesChecks(e)
    /\ (email_pattern = <<>> \/ MatchesPrefix(email_pattern, e.principalEmail))

RECURSIVE RefTotal(_, _, _)
\* The number of references to the key in a multiset of entries, counting
\* only the entries of the set S that pass every check.
RefTotal(S, bag, key) ==
    IF S = {} THEN 0
    ELSE LET e == CHOOSE x \in S : TRUE
         IN  (IF Counted(e) THEN bag[e] * RefsTo(e, Len(e.referencedTables), key) ELSE 0)
             + RefTotal(S \ {e}, bag, key)

\* C11: the map at the end of the build is a function of the multiset of the
\* entries the paginator delivered alone: whatever their order and their
\* split into pages, each key's count is the number of references to it in
\* the multiset.
C11_OrderIndependent ==
    pc = "ready" =>
        /\ DOMAIN table_usage_counts \subseteq Keys
        /\ \A key \in Keys :
              Get(table_usage_counts, key) = RefTotal(DOMAIN handed, handed, key)

C11_Witness ==
    /\ pc = "ready"
    /\ Len(calls) = 2
    /\ fails = 0
    /\ entry = JobEntry(<<"a", "b">>, <<T1>>, 1)
    /\ handed = [ e \in { JobEntry(<<"a", "b">>, <<T1>>, 1),
                          JobEntry(<<"b", "a">>, <<T1, T2>>, 2) } |-> 1 ]
    /\ Cardinality(DOMAIN table_usage_counts) = 3

\* C12: a complete entry that passes the state, error, referenced-tables and
\* email checks and lists a number of tables other than totalTablesProcessed
\* gets a warning and is still counted, one increment per listed reference.
C12_InconsistentStillCounted ==
    (Taken /\ Complete(entry) /\ Counted(entry)
       /\ Len(entry.referencedTables) # entry.totalTablesProcessed) =>
        /\ warned
        /\ err = "none"
        /\ pc \in {"refs", "page", "try"}
        /\ pc = "refs" \/
             \A key \in Keys :
                Get(table_usage_counts, key) =
                  Get(before, key) + RefsTo(entry, Len(entry.referencedTables), key)

C12_Witness ==
    /\ pc = "page"
    /\ count = Len(response.entries)
    /\ idx = count + 1
    /\ Complete(entry) /\ Counted(entry)
    /\ entry.totalTablesProcessed = 2
    /\ entry.referencedTables = << T1 >>
    /\ warned
    /\ table_usage_counts = Increment(before, KeyOf(T1, entry.principalEmail))

\* The last list call raised.
LastCallFailed == calls # <<>> /\ ~calls[Len(calls)].ok

\* init is still running.
Building == pc \in {"init", "while", "page", "refs", "try", "sleep"}

\* C13: with finitely many pages and finitely many failed next-page fetches
\* the run reaches Ready (a failure of the first list call, which init does
\* not retry, set aside), and for as long as the last fetch of a next page
\* has failed the run is in Building, neither Ready nor raised.
C13_BuildReachesReady ==
    /\ <>(pc = "ready" \/ (pc = "raised" /\ err = "transport"))
    /\ []((LastCallFailed /\ Len(calls) > 1) => Building)

\* C14: a run without a failed call over P pages issues P list calls: the
\* first without a page token, every other with the nextPageToken of the
\* response before it, and none after a response without nextPageToken.
C14_OneCallPerPage ==
    (fails = 0 /\ err # "transport") =>
        /\ \A i \in 1..Len(calls) :
              /\ calls[i].ok
              /\ calls[i].pageToken = (IF i = 1 THEN 0 ELSE calls[i - 1].next)
              /\ (i < Len(calls) => calls[i].next # 0)
        /\ (pc = "ready" => calls # <<>> /\ calls[Len(calls)].next = 0)
        /\ nCalls = Len(calls)

C14_Witness ==
    /\ pc = "ready"
    /\ fails = 0
    /\ Len(calls) = 2
    /\ calls[2].pageToken = calls[1].next
    /\ count = 2

\* C15: a failed fetch of a next page is followed by one sleep of delay_time
\* and then by a call with the same page token; until that call the token
\* of the body and the response stay as they were, failure after failure.
C15_RetrySameRequest ==
    /\ \A i \in 2..Len(calls) :
          ~calls[i - 1].ok => calls[i].pageToken = calls[i - 1].pageToken
    /\ slept = delay_time * (IF pc = "sleep" THEN fails - 1 ELSE fails)
    /\ (pc = "sleep" => LastCallFailed)
    /\ ((LastCallFailed /\ Len(calls) > 1) =>
          /\ pageToken = calls[Len(calls)].pageToken
          /\ response.nextPageToken = pageToken)

C15_Witness ==
    /\ Len(calls) = 4
    /\ ~calls[2].ok /\ ~calls[3].ok /\ calls[4].ok
    /\ calls[4].pageToken = calls[2].pageToken
    /\ slept = 200

\* C16: a response without 'entries' yields no entry and raises nothing; the
\* loop goes on with its nextPageToken, so nothing fetched is left undelivered
\* when the build ends.
C16_MissingEntriesIsEmptyPage ==
    /\ (pc \in {"page", "refs"} => response.hasEntries)
    /\ ((~response.isNone /\ ~response.hasEntries) =>
          (pc \in {"while", "try", "sleep"} /\ err = "none"))
    /\ \A i \in 1..Len(calls) :
          (calls[i].ok /\ ~calls[i].hasEntries /\ calls[i].next # 0 /\ i < Len(calls)) =>
              calls[i + 1].pageToken = calls[i].next
    /\ (pc = "ready" => (pending = <<>> /\ calls[Len(calls)].next = 0))

C16_Witness ==
    /\ pc = "ready"
    /\ fails = 0
    /\ Len(calls) = 2
    /\ calls[1].ok /\ ~calls[1].hasEntries /\ calls[1].next # 0
    /\ calls[2].ok /\ calls[2].hasEntries
    /\ count >= 1
    /\ table_usage_counts # EmptyCounts

\* C17: from Ready on every step is an extract() that changes the cursor and
\* its record of returned values only: the map, the call log and every other
\* variable of the build stay as they are.
C17_ReadOnlyAfterReady ==
    [][pc = "ready" =>
         /\ pc' = "ready"
         /\ table_usage_counts' = table_usage_counts
         /\ DOMAIN table_usage_counts' = DOMAIN table_usage_counts
         /\ calls' = calls
         /\ nCalls' = nCalls
         /\ UNCHANGED << err, email_pattern, slept, paging, idx, aggregation, served >>]_vars

C17_Witness ==
    /\ pc = "ready"
    /\ ret.kind = "pair"
    /\ Cardinality(DOMAIN table_usage_counts) = 3
    /\ Cardinality(DOMAIN returned) = 2
    /\ Cardinality(iter) = 1

\* C18: extract() has returned nothing and the cursor does not exist until
\* the build has ended with every fetched entry processed, and a returned
\* count is the count the map holds for its key.
C18_BuildBeforeExtract ==
    /\ ((ret # NoReturn \/ returned # EmptyCounts \/ nNone > 0 \/ iter # {}) =>
          (pc = "ready" /\ response.isNone /\ pending = <<>>))
    /\ (ret.kind = "pair" =>
          (ret.key \in DOMAIN table_usage_counts
             /\ ret.count = table_usage_counts[ret.key]
             /\ ret.count = RefTotal(DOMAIN handed, handed, ret.key)))

C18_Witness ==
    /\ pc = "ready"
    /\ ret.kind = "pair"
    /\ ret.count = 2
    /\ Len(calls) >= 2
    /\ fails = 0

\* One key of the map is one higher (1 if it was absent), all else equal.
OneKeyUp(old, new) ==
    \E key \in Keys :
        /\ DOMAIN new = DOMAIN old \cup {key}
        /\ new[key] = Get(old, key) + 1
        /\ \A k \in DOMAIN old \ {key} : new[k] = old[k]

\* C19: the map starts empty, and every step leaves it unchanged or raises
\* exactly one key's count by exactly 1.
C19_GrowsByOne ==
    /\ (pc = "init" => table_usage_counts = EmptyCounts)
    /\ [][table_usage_counts' = table_usage_counts
            \/ OneKeyUp(table_usage_counts, table_usage_counts')]_vars

C19_Witness ==
    /\ pc = "page"
    /\ Cardinality(DOMAIN table_usage_counts) = 3
    /\ \E key \in DOMAIN table_usage_counts : table_usage_counts[key] = 2
    /\ table_usage_counts # before

\* C20: every key of the map has database 'bigquery' and column '*' and a
\* count of at least 1, and so has every pair extract() returns.
C20_KeysWellFormed ==
    /\ \A key \in DOMAIN table_usage_counts :
          /\ key.database = "bigquery"
          /\ key.column = "*"
          /\ table_usage_counts[key] >= 1
    /\ (ret.kind = "pair" =>
          (ret.key.database = "bigquery" /\ ret.key.column = "*" /\ ret.count >= 1))

C20_Witness ==
    /\ ret.kind = "pair"
    /\ ret.count = 1
    /\ ret.key.table = T2.tableId
    /\ \E key \in DOMAIN table_usage_counts : table_usage_counts[key] >= 2
====
